---- MODULE Spec2Model ----
(***************************************************************************)
(* Model of src/bot_host.py: BotHostingService, a Telegram front-end that  *)
(* clones a repository, starts its first *.py file as a child process and  *)
(* tracks it in active_bots, and that edits os.environ through commands    *)
(* and uploaded .env files.                                                *)
(*                                                                         *)
(* Text (keys, values, lines, file names, file contents) is a sequence of  *)
(* one-character strings, so that strip, split, startswith, endswith and   *)
(* sorted are computed character by character as Python computes them.    *)
(* Handlers run one at a time on the dispatcher thread (Updater with the   *)
(* default, synchronous handlers); child processes run on their own.       *)
(***************************************************************************)
EXTENDS Naturals, Sequences, FiniteSets, TLC

VARIABLES
  active_bots,   \* self.active_bots: bot_id -> [process, repo, dir]
  procs,         \* every Popen handle created so far: handle -> child state
  dirs,          \* directories on disk: path -> set of file names in it
  environ,       \* os.environ, an insertion-ordered sequence of <<key, value>>
  persistent,    \* contents of persistent.env (NoFile until first written)
  conv,          \* ConversationHandler state of each caller
  hostpc,        \* position of the dispatcher inside _cmd_host ("idle" outside)
  cur,           \* locals of the running _cmd_host
  reply,         \* the last reply_text sent (its kind)
  listing,       \* what the last /list showed: set of <<bot_id, repo, status>>
  varsShown,     \* what the last /show_vars showed: sequence of <<key, value>>
  keysShown,     \* what the last /edit_var prompt showed: sequence of keys
  lastOp,        \* the last handler that ran to its end, with its arguments
  opSeq,         \* number of updates dispatched so far
  save           \* position of the dispatcher inside _save_persistent_vars

vars == <<active_bots, procs, dirs, environ, persistent, conv, hostpc, cur,
          reply, listing, varsShown, keysShown, lastOp, opSeq, save>>

----------------------------------------------------------------------------
\* Bounds of the model.

\* updates dispatched in one behaviour
MaxOps == 3
\* child processes started in one behaviour
MaxProcs == 2

----------------------------------------------------------------------------
\* Text.

NL == "\n"
\* characters str.strip() removes
Whitespace == {" ", NL, "\t", "\r"}

\* code points of the characters used, for the ordering of sorted()
Ord(c) ==
  CASE c = "." -> 46 [] c = "A" -> 65 [] c = "D" -> 68 [] c = "E" -> 69
    [] c = "M" -> 77 [] c = "R" -> 82 [] c = "a" -> 97 [] c = "b" -> 98
    [] c = "d" -> 100 [] c = "e" -> 101 [] c = "i" -> 105 [] c = "m" -> 109
    [] c = "n" -> 110 [] c = "o" -> 111 [] c = "p" -> 112 [] c = "q" -> 113
    [] c = "r" -> 114 [] c = "s" -> 115 [] c = "t" -> 116 [] c = "u" -> 117
    [] c = "x" -> 120 [] c = "y" -> 121 [] OTHER -> 0

StartsWith(s, pre) ==
  /\ Len(s) >= Len(pre)
  /\ SubSeq(s, 1, Len(pre)) = pre

EndsWith(s, suf) ==
  /\ Len(s) >= Len(suf)
  /\ SubSeq(s, Len(s) - Len(suf) + 1, Len(s)) = suf

RECURSIVE LStrip(_)
LStrip(s) ==
  IF s # <<>> /\ Head(s) \in Whitespace THEN LStrip(Tail(s)) ELSE s

RECURSIVE RStrip(_)
RStrip(s) ==
  IF s # <<>> /\ s[Len(s)] \in Whitespace
    THEN RStrip(SubSeq(s, 1, Len(s) - 1))
    ELSE s

\* str.strip()
Strip(s) == RStrip(LStrip(s))

\* index of the first occurrence of character c in s, 0 when there is none
RECURSIVE IndexFrom(_, _, _)
IndexFrom(s, c, i) ==
  IF i > Len(s) THEN 0
  ELSE IF s[i] = c THEN i
  ELSE IndexFrom(s, c, i + 1)

\* s.split("=", 1): one part when s has no "=", else the parts around the first
Split1(s) ==
  LET i == IndexFrom(s, "=", 1) IN
    IF i = 0 THEN <<s>>
    ELSE <<SubSeq(s, 1, i - 1), SubSeq(s, i + 1, Len(s))>>

\* iteration over a text file: the lines, each with its line end
RECURSIVE FileLines(_)
FileLines(text) ==
  IF text = <<>> THEN <<>>
  ELSE LET i == IndexFrom(text, NL, 1) IN
    IF i = 0 THEN <<text>>
    ELSE <<SubSeq(text, 1, i)>> \o FileLines(SubSeq(text, i + 1, Len(text)))

\* s < t for Python strings
RECURSIVE StrLess(_, _)
StrLess(s, t) ==
  IF t = <<>> THEN FALSE
  ELSE IF s = <<>> THEN TRUE
  ELSE IF Head(s) = Head(t) THEN StrLess(Tail(s), Tail(t))
  ELSE Ord(Head(s)) < Ord(Head(t))

----------------------------------------------------------------------------
\* The configuration store: os.environ.

\* the prefix of the keys that _cmd_show_vars and _save_persistent_vars leave out
RESERVED_PREFIX == <<"R", "E", "N", "D", "E", "R", "_">>

kToken == <<"T", "E", "L", "E", "G", "R", "A", "M", "_", "H", "O", "S", "T", "_", "T", "O", "K", "E", "N">>
kA == <<"A">>
kB == <<"B">>
kRenderX == RESERVED_PREFIX \o <<"X">>

\* the environments the service can be started in; TELEGRAM_HOST_TOKEN is
\* always set, or the main block raises before the service is constructed
InitEnvirons ==
  { << <<kToken, <<"t">>>>, <<kA, <<"1">>>> >>,
    << <<kToken, <<"t">>>>, <<kRenderX, <<"9">>>>, <<kA, <<"1">>>>,
       <<kB, <<"2", " ">>>> >> }

EnvKeys(env) == {env[i][1] : i \in 1..Len(env)}

\* key in os.environ
HasKey(env, k) == k \in EnvKeys(env)

\* os.environ[k], for a key that is present
Get(env, k) == env[CHOOSE i \in 1..Len(env) : env[i][1] = k][2]

\* the names putenv accepts: os.environ[k] = v raises for the others
ValidName(k) == k # <<>> /\ IndexFrom(k, "=", 1) = 0

\* (variant of SetItem used to test C10: os.environ.setdefault(k, v))
SetItemDefault(env, k, v) ==
  IF k \in {env[i][1] : i \in 1..Len(env)} THEN env ELSE Append(env, <<k, v>>)

\* os.environ[k] = v for a valid name: an existing key keeps its place
SetItem(env, k, v) ==
  IF HasKey(env, k)
    THEN [i \in 1..Len(env) |-> IF env[i][1] = k THEN <<k, v>> ELSE env[i]]
    ELSE Append(env, <<k, v>>)

IsReserved(k) == StartsWith(k, RESERVED_PREFIX)

\* the entries whose key does not start with RENDER_, in os.environ's order
NonReserved(env) == SelectSeq(env, LAMBDA e : ~IsReserved(e[1]))

\* (variant of SavedLines used to test C18: every entry is written, the
\* reserved ones too)
RECURSIVE SavedLinesAll(_)
SavedLinesAll(env) ==
  IF env = <<>> THEN <<>>
  ELSE <<Head(env)[1] \o <<"=">> \o Head(env)[2] \o <<NL>>>> \o SavedLinesAll(Tail(env))

\* the lines _save_persistent_vars writes
RECURSIVE SavedLines(_)
SavedLines(env) ==
  IF env = <<>> THEN <<>>
  ELSE LET e == Head(env) IN
    (IF IsReserved(e[1]) THEN <<>> ELSE <<e[1] \o <<"=">> \o e[2] \o <<NL>>>>)
      \o SavedLines(Tail(env))

RECURSIVE Concat(_)
Concat(lines) ==
  IF lines = <<>> THEN <<>> ELSE Head(lines) \o Concat(Tail(lines))

\* the text of persistent.env after _save_persistent_vars
SavedText(env) == Concat(SavedLines(env))

\* the listing _cmd_show_vars renders
ShownVars(env) == SelectSeq(env, LAMBDA e : ~IsReserved(e[1]))

\* the keys _cmd_edit_var_start renders
ShownKeys(env) == [i \in 1..Len(env) |-> env[i][1]]

\* (variant of ImportLines used to test C11: os.environ.setdefault(key, value),
\* so a key that is set already keeps its value)
RECURSIVE ImportLinesKeepFirst(_, _)
ImportLinesKeepFirst(env, lines) ==
  IF lines = <<>> THEN [env |-> env, ok |-> TRUE]
  ELSE LET line == Strip(Head(lines)) IN
    IF line # <<>> /\ ~StartsWith(line, <<"#">>)
      THEN LET parts == Split1(line) IN
        IF Len(parts) < 2 THEN [env |-> env, ok |-> FALSE]
        ELSE IF ~ValidName(parts[1]) THEN [env |-> env, ok |-> FALSE]
        ELSE ImportLinesKeepFirst(
               IF HasKey(env, parts[1]) THEN env
                                        ELSE Append(env, <<parts[1], parts[2]>>),
               Tail(lines))
      ELSE ImportLinesKeepFirst(env, Tail(lines))

\* the loop of _handle_env_file over the lines of temp.env: the store when the
\* loop ends, and whether it ended without an exception
RECURSIVE ImportLines(_, _)
ImportLines(env, lines) ==
  IF lines = <<>> THEN [env |-> env, ok |-> TRUE]
  ELSE LET line == Strip(Head(lines)) IN
    IF line # <<>> /\ ~StartsWith(line, <<"#">>)
      THEN LET parts == Split1(line) IN
        IF Len(parts) < 2 THEN [env |-> env, ok |-> FALSE]
        ELSE IF ~ValidName(parts[1]) THEN [env |-> env, ok |-> FALSE]
        ELSE ImportLines(SetItem(env, parts[1], parts[2]), Tail(lines))
      ELSE ImportLines(env, Tail(lines))

\* the uploads and messages the callers send
SpecExampleText == <<"A", "=", "1", "\n", "B", "=", "2", "\n", "#", "c", "o", "m", "m", "e", "n", "t", "\n", "\n", "B", "A", "D", "L", "I", "N", "E", "\n", "A", "=", "3", "\n">>
UploadTexts ==
  { SpecExampleText,
    <<"A", "=", "2", "\n", "B", "=", "2", "\n", "A", "=", "3">>,
    <<"=", "x", "\n", "A", "=", "3", "\n">>,
    <<"R", "E", "N", "D", "E", "R", "_", "X", "=", "5", "\n">> }
UploadNames == { <<"v", ".", "e", "n", "v">>, <<"v", ".", "t", "x", "t">> }
DotEnv == <<".", "e", "n", "v">>

EditTexts == { <<"A", "=", "3">>, <<"B", "=", "4">>, <<"B", "A", "D", "L", "I", "N", "E">>, <<"R", "E", "N", "D", "E", "R", "_", "X", "=", "1">> }

----------------------------------------------------------------------------
\* The repositories, the working directories and the child processes.

\* the values str(uuid4())[:6] can take
BotIds == {"a1b2c3", "d4e5f6"}

\* the urls the callers ask to host
RepoUrls == {"https://example/repo", "https://example/deps", "https://example/docs"}

fMain == <<"m", "a", "i", "n", ".", "p", "y">>
fSetup == <<"s", "e", "t", "u", "p", ".", "p", "y">>
fBot == <<"b", "o", "t", ".", "p", "y">>
fReq == <<"r", "e", "q", "u", "i", "r", "e", "m", "e", "n", "t", "s", ".", "t", "x", "t">>
fReadme == <<"R", "E", "A", "D", "M", "E", ".", "m", "d">>
fGit == <<".", "g", "i", "t">>
DotPy == <<".", "p", "y">>

\* req_file = os.path.join(repo_dir, "requirements.txt"), as a path below the
\* working directory
ManifestPath(dir) == <<dir, "/">> \o fReq

\* what git clone leaves in the working directory, by url; the tree of the
\* second url also holds bot_a1b2c3/requirements.txt
RepoFiles(url) ==
  CASE url = "https://example/repo" -> {fGit, fSetup, fMain}
    [] url = "https://example/deps" -> {fGit, fReq, fBot, ManifestPath("bot_a1b2c3")}
    [] OTHER -> {fGit, fReadme}

\* repo_dir = f"bot_{bot_id}"
RepoDir(bot_id) == "bot_" \o bot_id

\* _find_main_file: the *.py names in the directory, and the first in sorted order
PyFiles(files) == {f \in files : EndsWith(f, DotPy)}

\* (variant of FirstSorted used to test C14: sorted(py_files)[-1])
LastSorted(files) == CHOOSE f \in files : \A g \in files : g = f \/ StrLess(g, f)

FirstSorted(files) == CHOOSE f \in files : \A g \in files : g = f \/ StrLess(f, g)

\* (variant of SpawnEnv used to test C5: the child gets the persisted entries
\* only, not the store as it is at the spawn)
SpawnEnvNonReserved(env) == SelectSeq(env, LAMBDA e : ~StartsWith(e[1], RESERVED_PREFIX))

\* env=os.environ.copy() at the Popen call
SpawnEnv(env) == env

NoFile == [exists |-> FALSE, text |-> <<>>]
NoCur == [id |-> "", repo |-> "", dir |-> "", pip |-> "none", main |-> <<>>,
          process |-> 0, before |-> <<>>]
NoOp == [op |-> "none", id |-> "", text |-> <<>>, res |-> ""]
\* no _save_persistent_vars is running
NoSave == [pc |-> "idle", c |-> "", text |-> <<>>, i |-> 0, start |-> <<>>]

Callers == {"u1"}

Init ==
  /\ active_bots = <<>>
  /\ procs = <<>>
  /\ dirs = <<>>
  /\ environ \in InitEnvirons
  /\ persistent = NoFile
  /\ conv = [c \in Callers |-> "none"]
  /\ hostpc = "idle"
  /\ cur = NoCur
  /\ reply = "none"
  /\ listing = {}
  /\ varsShown = <<>>
  /\ keysShown = <<>>
  /\ lastOp = NoOp
  /\ save = NoSave
  /\ opSeq = 0

\* (variant of Dispatch used to test C13: updates are handled while a handler
\* is still inside _save_persistent_vars, as with run_async handlers)
DispatchIgnoresSave ==
  /\ hostpc = "idle"
  /\ opSeq < MaxOps
  /\ opSeq' = opSeq + 1

\* the dispatcher takes the next update only when the previous handler returned
Dispatch ==
  /\ hostpc = "idle"
  /\ save.pc = "idle"
  /\ opSeq < MaxOps
  /\ opSeq' = opSeq + 1

----------------------------------------------------------------------------
\* _cmd_host, one action for each step of its try block.

\* (variant of HostAbort used to test C1: the except branch also drops the
\* record filed under the id of the failed deploy)
HostAbortDrops(res) ==
  /\ active_bots' = [b \in DOMAIN active_bots \ {cur.id} |-> active_bots[b]]
  /\ hostpc' = "idle"
  /\ cur' = NoCur
  /\ reply' = "error"
  /\ lastOp' = [op |-> "host", id |-> cur.id, text |-> <<>>, res |-> res]

\* the handler ends in its except branch: nothing of the deploy is kept but
\* what is already on disk
HostAbort(res) ==
  /\ UNCHANGED active_bots
  /\ hostpc' = "idle"
  /\ cur' = NoCur
  /\ reply' = "error"
  /\ lastOp' = [op |-> "host", id |-> cur.id, text |-> <<>>, res |-> res]

\* /host without an argument
HostNoArgs ==
  /\ Dispatch
  /\ reply' = "provide_url"
  /\ lastOp' = [op |-> "host", id |-> "", text |-> <<>>, res |-> "no_args"]
  /\ UNCHANGED <<save, active_bots, procs, dirs, environ, persistent, conv, hostpc,
                 cur, listing, varsShown, keysShown>>

\* (variant of HostStart used to test C16: the record is filed when the deploy
\* begins, before there is a process to put in it)
HostStartRegistersPending(repo_url, bot_id, sent) ==
  /\ Dispatch
  /\ Len(procs) < MaxProcs
  /\ IF sent
       THEN /\ hostpc' = "clone"
            /\ cur' = [NoCur EXCEPT !.id = bot_id, !.repo = repo_url,
                                    !.dir = RepoDir(bot_id),
                                    !.before = active_bots]
            /\ active_bots' = [b \in DOMAIN active_bots \cup {bot_id} |->
                                IF b = bot_id
                                  THEN [process |-> 0, repo |-> repo_url,
                                        dir |-> RepoDir(bot_id)]
                                  ELSE active_bots[b]]
            /\ reply' = "cloning"
            /\ UNCHANGED lastOp
       ELSE /\ hostpc' = "idle"
            /\ cur' = NoCur
            /\ reply' = "error"
            /\ lastOp' = [op |-> "host", id |-> bot_id, text |-> <<>>,
                          res |-> "fail_reply"]
            /\ UNCHANGED active_bots
  /\ UNCHANGED <<save, procs, dirs, environ, persistent, conv,
                 listing, varsShown, keysShown>>

\* /host <repo_url>: the id is drawn, the directory named, "Cloning" sent
HostStart(repo_url, bot_id, sent) ==
  /\ Dispatch
  /\ Len(procs) < MaxProcs
  /\ IF sent
       THEN /\ hostpc' = "clone"
            /\ cur' = [NoCur EXCEPT !.id = bot_id, !.repo = repo_url,
                                    !.dir = RepoDir(bot_id),
                                    !.before = active_bots]
            /\ reply' = "cloning"
            /\ UNCHANGED lastOp
       ELSE /\ hostpc' = "idle"
            /\ cur' = NoCur
            /\ reply' = "error"
            /\ lastOp' = [op |-> "host", id |-> bot_id, text |-> <<>>,
                          res |-> "fail_reply"]
  /\ UNCHANGED <<save, active_bots, procs, dirs, environ, persistent, conv,
                 listing, varsShown, keysShown>>

\* (variant of CloneSucceeds used to test C2: a clone into a directory that
\* exists already succeeds)
CloneIntoExisting(ds, dir, fetched) == fetched

\* git clone exits 0 only when the repository was fetched into a directory
\* that did not exist before
CloneSucceeds(ds, dir, fetched) == fetched /\ dir \notin DOMAIN ds

\* subprocess.run(["git", "clone", repo_url, repo_dir], check=True)
HostClone(fetched) ==
  /\ hostpc = "clone"
  /\ IF CloneSucceeds(dirs, cur.dir, fetched)
       THEN /\ dirs' = (cur.dir :> RepoFiles(cur.repo)) @@ dirs
            /\ hostpc' = "install"
            /\ UNCHANGED <<active_bots, cur, reply, lastOp>>
       ELSE /\ HostAbort("fail_clone")
            /\ UNCHANGED dirs
  /\ UNCHANGED <<save, procs, environ, persistent, conv, listing, varsShown,
                 keysShown, opSeq>>

\* pip is run with cwd=repo_dir and is given req_file, which starts with
\* repo_dir: it exits 0 only when it can open that path below the working
\* directory and the installation goes through
InstallSucceeds(files, dir, installed) == installed /\ ManifestPath(dir) \in files

\* (variant of HostInstall used to test C15: pip is run without check=True,
\* so its exit status is not looked at)
HostInstallUnchecked(sent, installed) ==
  /\ hostpc = "install"
  /\ IF fReq \in dirs[cur.dir]
       THEN IF ~sent THEN HostAbort("fail_reply")
            ELSE /\ hostpc' = "find"
                 /\ reply' = "installing"
                 /\ cur' = [cur EXCEPT !.pip =
                             IF InstallSucceeds(dirs[cur.dir], cur.dir, installed)
                               THEN "ok" ELSE "failed"]
                 /\ UNCHANGED <<active_bots, lastOp>>
       ELSE /\ hostpc' = "find"
            /\ UNCHANGED <<active_bots, cur, reply, lastOp>>
  /\ UNCHANGED <<save, procs, dirs, environ, persistent, conv, listing, varsShown,
                 keysShown, opSeq>>

\* pip install -r requirements.txt, when the file exists
HostInstall(sent, installed) ==
  /\ hostpc = "install"
  /\ IF fReq \in dirs[cur.dir]
       THEN IF ~sent THEN HostAbort("fail_reply")
            ELSE IF ~InstallSucceeds(dirs[cur.dir], cur.dir, installed)
              THEN HostAbort("fail_install")
            ELSE /\ hostpc' = "find"
                 /\ reply' = "installing"
                 /\ cur' = [cur EXCEPT !.pip = "ok"]
                 /\ UNCHANGED <<active_bots, lastOp>>
       ELSE /\ hostpc' = "find"
            /\ UNCHANGED <<active_bots, cur, reply, lastOp>>
  /\ UNCHANGED <<save, procs, dirs, environ, persistent, conv, listing, varsShown,
                 keysShown, opSeq>>

\* main_file = self._find_main_file(repo_dir)
HostFindMain ==
  /\ hostpc = "find"
  /\ IF PyFiles(dirs[cur.dir]) = {}
       THEN HostAbort("fail_entry")
       ELSE /\ cur' = [cur EXCEPT !.main = FirstSorted(PyFiles(dirs[cur.dir]))]
            /\ hostpc' = "spawn"
            /\ UNCHANGED <<active_bots, reply, lastOp>>
  /\ UNCHANGED <<save, procs, dirs, environ, persistent, conv, listing, varsShown,
                 keysShown, opSeq>>

\* process = subprocess.Popen(["python", main_file], cwd=repo_dir, env=...)
HostSpawn(started) ==
  /\ hostpc = "spawn"
  /\ IF started
       THEN /\ procs' = Append(procs, [env |-> SpawnEnv(environ),
                                       cwd |-> cur.dir, main |-> cur.main,
                                       alive |-> TRUE, signalled |-> FALSE,
                                       reaped |-> FALSE])
            /\ cur' = [cur EXCEPT !.process = Len(procs) + 1]
            /\ hostpc' = "register"
            /\ UNCHANGED <<active_bots, reply, lastOp>>
       ELSE /\ HostAbort("fail_spawn")
            /\ UNCHANGED procs
  /\ UNCHANGED <<save, dirs, environ, persistent, conv, listing, varsShown,
                 keysShown, opSeq>>

\* self.active_bots[bot_id] = {...}
Register(bots, bot_id, rec) ==
  [b \in DOMAIN bots \cup {bot_id} |-> IF b = bot_id THEN rec ELSE bots[b]]

HostRegister ==
  /\ hostpc = "register"
  /\ active_bots' = Register(active_bots, cur.id,
                             [process |-> cur.process, repo |-> cur.repo,
                              dir |-> cur.dir])
  /\ hostpc' = "reply"
  /\ UNCHANGED <<save, procs, dirs, environ, persistent, conv, cur, reply, listing,
                 varsShown, keysShown, lastOp, opSeq>>

\* the "Bot deployed!" reply; when it raises, the except branch replies instead
HostReplyDeployed(sent) ==
  /\ hostpc = "reply"
  /\ hostpc' = "idle"
  /\ cur' = NoCur
  /\ reply' = IF sent THEN "deployed" ELSE "error"
  /\ lastOp' = [op |-> "host", id |-> cur.id, text |-> <<>>,
                res |-> IF sent THEN "deployed" ELSE "fail_reply_deployed"]
  /\ UNCHANGED <<save, active_bots, procs, dirs, environ, persistent, conv, listing,
                 varsShown, keysShown, opSeq>>

----------------------------------------------------------------------------
\* _cmd_stop, _cmd_list and the children.

\* (variant of Terminate used to test C20: the call of terminate() is missing)
TerminateSkipped(ps, h) == ps

\* Popen.terminate(): SIGTERM to a child that still runs; a child found to
\* have exited is reaped and gets no signal
Terminate(ps, h) ==
  [ps EXCEPT ![h] = IF @.alive THEN [@ EXCEPT !.signalled = TRUE]
                               ELSE [@ EXCEPT !.reaped = TRUE]]

\* (variant of Remove used to test C3: the del statement is missing)
RemoveKeeps(bots, bot_id) == bots

\* del self.active_bots[bot_id]
Remove(bots, bot_id) == [b \in DOMAIN bots \ {bot_id} |-> bots[b]]

StopNoArgs ==
  /\ Dispatch
  /\ reply' = "provide_id"
  /\ lastOp' = [op |-> "stop", id |-> "", text |-> <<>>, res |-> "no_args"]
  /\ UNCHANGED <<save, active_bots, procs, dirs, environ, persistent, conv, hostpc,
                 cur, listing, varsShown, keysShown>>

\* (variant of Stop used to test C4: the return after "Bot not found" is
\* missing, so the try block runs, raises KeyError and replies "Failed")
StopNoReturn(bot_id) ==
  /\ Dispatch
  /\ IF bot_id \notin DOMAIN active_bots
       THEN /\ reply' = "failed"
            /\ lastOp' = [op |-> "stop", id |-> bot_id, text |-> <<>>,
                          res |-> "failed"]
            /\ UNCHANGED <<active_bots, procs>>
       ELSE /\ procs' = Terminate(procs, active_bots[bot_id].process)
            /\ active_bots' = Remove(active_bots, bot_id)
            /\ reply' = "stopped"
            /\ lastOp' = [op |-> "stop", id |-> bot_id, text |-> <<>>,
                          res |-> "stopped"]
  /\ UNCHANGED <<save, dirs, environ, persistent, conv, hostpc, cur, listing,
                 varsShown, keysShown>>

Stop(bot_id) ==
  /\ Dispatch
  /\ IF bot_id \notin DOMAIN active_bots
       THEN /\ reply' = "not_found"
            /\ lastOp' = [op |-> "stop", id |-> bot_id, text |-> <<>>,
                          res |-> "not_found"]
            /\ UNCHANGED <<active_bots, procs>>
       ELSE /\ procs' = Terminate(procs, active_bots[bot_id].process)
            /\ active_bots' = Remove(active_bots, bot_id)
            /\ reply' = "stopped"
            /\ lastOp' = [op |-> "stop", id |-> bot_id, text |-> <<>>,
                          res |-> "stopped"]
  /\ UNCHANGED <<save, dirs, environ, persistent, conv, hostpc, cur, listing,
                 varsShown, keysShown>>

\* (variant of Status used to test C6: the status is read from the handle's
\* returncode without polling)
StatusByReturncode(p) == IF ~p.reaped THEN "Running" ELSE "Stopped"

\* "Running" if info["process"].poll() is None else "Stopped"
Status(p) == IF p.alive THEN "Running" ELSE "Stopped"

\* the rows of the /list message
Rows(bots, ps) ==
  {<<b, bots[b].repo, Status(ps[bots[b].process])>> : b \in DOMAIN bots}

\* poll() on every listed handle reaps the children that have exited
Polled(bots, ps) ==
  [h \in DOMAIN ps |->
     IF (\E b \in DOMAIN bots : bots[b].process = h) /\ ~ps[h].alive
       THEN [ps[h] EXCEPT !.reaped = TRUE]
       ELSE ps[h]]

List ==
  /\ Dispatch
  /\ IF DOMAIN active_bots = {}
       THEN /\ reply' = "no_active_bots"
            /\ listing' = {}
            /\ UNCHANGED procs
       ELSE /\ reply' = "active_bots"
            /\ listing' = Rows(active_bots, procs)
            /\ procs' = Polled(active_bots, procs)
  /\ lastOp' = [op |-> "list", id |-> "", text |-> <<>>, res |-> "listed"]
  /\ UNCHANGED <<save, active_bots, dirs, environ, persistent, conv, hostpc, cur,
                 varsShown, keysShown>>

\* a child process ends by itself, or after the signal
ProcExit(h) ==
  /\ procs[h].alive
  /\ procs' = [procs EXCEPT ![h].alive = FALSE]
  /\ UNCHANGED <<save, active_bots, dirs, environ, persistent, conv, hostpc, cur,
                 reply, listing, varsShown, keysShown, lastOp, opSeq>>

----------------------------------------------------------------------------
\* /show_vars, the .env upload and the editing conversation.

ShowVars ==
  /\ Dispatch
  /\ varsShown' = ShownVars(environ)
  /\ reply' = "environment_variables"
  /\ lastOp' = [op |-> "show_vars", id |-> "", text |-> <<>>, res |-> "shown"]
  /\ UNCHANGED <<save, active_bots, procs, dirs, environ, persistent, conv, hostpc,
                 cur, listing, keysShown>>

\* the documents a caller can upload: the sample files, and persistent.env
Uploads ==
  UploadTexts \cup (IF persistent.exists THEN {persistent.text} ELSE {})

\* _handle_env_file for a document called name with contents text
HandleEnvFile(name, text, downloaded) ==
  /\ Dispatch
  /\ IF ~EndsWith(name, DotEnv)
       THEN /\ reply' = "please_upload_env"
            /\ lastOp' = [op |-> "env_file", id |-> "", text |-> text,
                          res |-> "not_env"]
            /\ UNCHANGED environ
       ELSE IF ~downloaded
         THEN /\ reply' = "error"
              /\ lastOp' = [op |-> "env_file", id |-> "", text |-> text,
                            res |-> "fail_download"]
              /\ UNCHANGED environ
         ELSE LET r == ImportLines(environ, FileLines(text)) IN
              /\ environ' = r.env
              /\ reply' = IF r.ok THEN "updated_from_file" ELSE "error"
              /\ lastOp' = [op |-> "env_file", id |-> "", text |-> text,
                            res |-> IF r.ok THEN "updated" ELSE "fail_line"]
  /\ UNCHANGED <<save, active_bots, procs, dirs, persistent, conv, hostpc, cur,
                 listing, varsShown, keysShown>>

\* /edit_var from a caller who is in no conversation
EditVarStart(c) ==
  /\ Dispatch
  /\ conv[c] = "none"
  /\ keysShown' = ShownKeys(environ)
  /\ conv' = [conv EXCEPT ![c] = "EDIT_VAR"]
  /\ reply' = "enter_variable"
  /\ lastOp' = [op |-> "edit_var", id |-> c, text |-> <<>>, res |-> "prompted"]
  /\ UNCHANGED <<save, active_bots, procs, dirs, environ, persistent, hostpc, cur,
                 listing, varsShown>>

\* what persistent.env can hold after a write that raised: the old contents
\* (open failed) or the lines written before the error
FailedWrites(old, lines) ==
  {old} \cup {[exists |-> TRUE, text |-> Concat(SubSeq(lines, 1, n))] :
                n \in 0..(Len(lines) - 1)}

\* _save_persistent_vars: the file after the call
Saved(env) == [exists |-> TRUE, text |-> SavedText(env)]

\* (variant of EditVarComplete used to test C17: a key that is not in the
\* store is created and the store is saved)
EditVarCompleteCreates(c, text, sent, written) ==
  /\ Dispatch
  /\ conv[c] = "EDIT_VAR"
  /\ LET parts == Split1(text) IN
     IF Len(parts) < 2
       THEN /\ reply' = "invalid_format"
            /\ lastOp' = [op |-> "edit", id |-> c, text |-> text,
                          res |-> IF sent THEN "invalid_format"
                                          ELSE "invalid_format_reply_failed"]
            /\ conv' = [conv EXCEPT ![c] = IF sent THEN "none" ELSE @]
            /\ UNCHANGED <<environ, persistent>>
       ELSE IF ~HasKey(environ, parts[1])
         THEN /\ environ' = environ \o << <<parts[1], parts[2]>> >>
              /\ persistent' = Saved(environ')
              /\ reply' = "not_found"
              /\ lastOp' = [op |-> "edit", id |-> c, text |-> text,
                            res |-> IF sent THEN "not_found"
                                            ELSE "not_found_reply_failed"]
              /\ conv' = [conv EXCEPT ![c] = IF sent THEN "none" ELSE @]
         ELSE /\ environ' = SetItem(environ, parts[1], parts[2])
              /\ reply' = "updated"
              /\ IF ~sent
                   THEN /\ UNCHANGED <<persistent, conv>>
                        /\ lastOp' = [op |-> "edit", id |-> c, text |-> text,
                                      res |-> "updated_reply_failed"]
                   ELSE IF written
                     THEN /\ persistent' = Saved(environ')
                          /\ conv' = [conv EXCEPT ![c] = "none"]
                          /\ lastOp' = [op |-> "edit", id |-> c, text |-> text,
                                        res |-> "updated"]
                     ELSE /\ persistent' \in
                               FailedWrites(persistent, SavedLines(environ'))
                          /\ UNCHANGED conv
                          /\ lastOp' = [op |-> "edit", id |-> c, text |-> text,
                                        res |-> "updated_save_failed"]
  /\ UNCHANGED <<save, active_bots, procs, dirs, hostpc, cur, listing, varsShown,
                 keysShown>>

\* the text message that completes /edit_var; sent: the reply went out,
\* written: persistent.env could be written
EditVarComplete(c, text, sent, written) ==
  /\ Dispatch
  /\ conv[c] = "EDIT_VAR"
  /\ LET parts == Split1(text) IN
     IF Len(parts) < 2
       THEN /\ reply' = "invalid_format"
            /\ lastOp' = [op |-> "edit", id |-> c, text |-> text,
                          res |-> IF sent THEN "invalid_format"
                                          ELSE "invalid_format_reply_failed"]
            /\ conv' = [conv EXCEPT ![c] = IF sent THEN "none" ELSE @]
            /\ UNCHANGED <<environ, persistent>>
       ELSE IF ~HasKey(environ, parts[1])
         THEN /\ reply' = "not_found"
              /\ lastOp' = [op |-> "edit", id |-> c, text |-> text,
                            res |-> IF sent THEN "not_found"
                                            ELSE "not_found_reply_failed"]
              /\ conv' = [conv EXCEPT ![c] = IF sent THEN "none" ELSE @]
              /\ UNCHANGED <<environ, persistent>>
         ELSE /\ environ' = SetItem(environ, parts[1], parts[2])
              /\ reply' = "updated"
              /\ IF ~sent
                   THEN /\ UNCHANGED <<persistent, conv>>
                        /\ lastOp' = [op |-> "edit", id |-> c, text |-> text,
                                      res |-> "updated_reply_failed"]
                   ELSE IF written
                     THEN /\ persistent' = Saved(environ')
                          /\ conv' = [conv EXCEPT ![c] = "none"]
                          /\ lastOp' = [op |-> "edit", id |-> c, text |-> text,
                                        res |-> "updated"]
                     ELSE /\ persistent' \in
                               FailedWrites(persistent, SavedLines(environ'))
                          /\ UNCHANGED conv
                          /\ lastOp' = [op |-> "edit", id |-> c, text |-> text,
                                        res |-> "updated_save_failed"]
  /\ UNCHANGED <<save, active_bots, procs, dirs, hostpc, cur, listing, varsShown,
                 keysShown>>

\* /cancel inside a conversation
Cancel(c) ==
  /\ Dispatch
  /\ conv[c] # "none"
  /\ conv' = [conv EXCEPT ![c] = "none"]
  /\ reply' = "cancelled"
  /\ lastOp' = [op |-> "cancel", id |-> c, text |-> <<>>, res |-> "cancelled"]
  /\ UNCHANGED <<save, active_bots, procs, dirs, environ, persistent, hostpc, cur,
                 listing, varsShown, keysShown>>

\* /add_var from a caller who is in no conversation
AddVarStart(c) ==
  /\ Dispatch
  /\ conv[c] = "none"
  /\ conv' = [conv EXCEPT ![c] = "ADD_VAR"]
  /\ reply' = "enter_variable"
  /\ lastOp' = [op |-> "add_var", id |-> c, text |-> <<>>, res |-> "prompted"]
  /\ UNCHANGED <<save, active_bots, procs, dirs, environ, persistent, hostpc, cur,
                 listing, varsShown, keysShown>>

\* the text message that completes /add_var: the key is created, or overwritten
AddVarComplete(c, text) ==
  /\ Dispatch
  /\ conv[c] = "ADD_VAR"
  /\ LET parts == Split1(text) IN
     IF Len(parts) < 2 \/ ~ValidName(parts[1])
       THEN /\ reply' = "invalid_format"
            /\ lastOp' = [op |-> "add", id |-> c, text |-> text,
                          res |-> "invalid_format"]
            /\ UNCHANGED <<environ, persistent>>
       ELSE /\ environ' = SetItem(environ, parts[1], parts[2])
            /\ persistent' = Saved(environ')
            /\ reply' = "added"
            /\ lastOp' = [op |-> "add", id |-> c, text |-> text,
                          res |-> "added"]
  /\ conv' = [conv EXCEPT ![c] = "none"]
  /\ UNCHANGED <<save, active_bots, procs, dirs, hostpc, cur, listing, varsShown,
                 keysShown>>

AddTexts == {<<"B", "=", "2">>, <<"=", "x">>}

\* del os.environ[k]
DelItem(env, k) == SelectSeq(env, LAMBDA e : e[1] # k)

\* /del_var from a caller who is in no conversation
DelVarStart(c) ==
  /\ Dispatch
  /\ conv[c] = "none"
  /\ conv' = [conv EXCEPT ![c] = "DEL_VAR"]
  /\ reply' = "enter_variable"
  /\ lastOp' = [op |-> "del_var", id |-> c, text |-> <<>>, res |-> "prompted"]
  /\ UNCHANGED <<save, active_bots, procs, dirs, environ, persistent, hostpc, cur,
                 listing, varsShown, keysShown>>

\* the text message that completes /del_var: the key is removed when present
DelVarComplete(c, text) ==
  /\ Dispatch
  /\ conv[c] = "DEL_VAR"
  /\ IF HasKey(environ, text)
       THEN /\ environ' = DelItem(environ, text)
            /\ persistent' = Saved(environ')
            /\ reply' = "deleted"
            /\ lastOp' = [op |-> "del", id |-> c, text |-> text,
                          res |-> "deleted"]
       ELSE /\ reply' = "not_found"
            /\ lastOp' = [op |-> "del", id |-> c, text |-> text,
                          res |-> "not_found"]
            /\ UNCHANGED <<environ, persistent>>
  /\ conv' = [conv EXCEPT ![c] = "none"]
  /\ UNCHANGED <<save, active_bots, procs, dirs, hostpc, cur, listing, varsShown,
                 keysShown>>

DelTexts == {kA, kB}

----------------------------------------------------------------------------
\* The edit handler with _save_persistent_vars taken one line at a time.

\* _cmd_edit_var_complete in the cases that do not reach _save_persistent_vars
EditVarNoSave(c, text, sent) ==
  /\ EditVarComplete(c, text, sent, TRUE)
  /\ lastOp'.res # "updated"

\* _cmd_edit_var_complete for a key of the store, up to the open() of
\* _save_persistent_vars: the key is set, the reply sent, the file truncated
EditVarBegin(c, text, opened) ==
  /\ Dispatch
  /\ conv[c] = "EDIT_VAR"
  /\ Len(Split1(text)) = 2
  /\ HasKey(environ, Split1(text)[1])
  /\ environ' = SetItem(environ, Split1(text)[1], Split1(text)[2])
  /\ reply' = "updated"
  /\ IF opened
       THEN /\ persistent' = [exists |-> TRUE, text |-> <<>>]
            /\ save' = [pc |-> "writing", c |-> c, text |-> text, i |-> 1,
                        start |-> environ']
            /\ UNCHANGED lastOp
       ELSE /\ lastOp' = [op |-> "edit", id |-> c, text |-> text,
                          res |-> "updated_save_failed"]
            /\ UNCHANGED <<persistent, save>>
  /\ UNCHANGED <<active_bots, procs, dirs, conv, hostpc, cur, listing,
                 varsShown, keysShown>>

\* one turn of the loop over os.environ.items(): the entry is left out, or
\* its line is written, or the write raises and the handler ends there
SaveStep(written) ==
  /\ save.pc = "writing"
  /\ save.i <= Len(environ)
  /\ LET e == environ[save.i] IN
     IF IsReserved(e[1])
       THEN /\ written
            /\ save' = [save EXCEPT !.i = @ + 1]
            /\ UNCHANGED <<persistent, lastOp>>
       ELSE IF written
         THEN /\ persistent' = [persistent EXCEPT
                                  !.text = @ \o e[1] \o <<"=">> \o e[2] \o <<NL>>]
              /\ save' = [save EXCEPT !.i = @ + 1]
              /\ UNCHANGED lastOp
         ELSE /\ save' = NoSave
              /\ lastOp' = [op |-> "edit", id |-> save.c, text |-> save.text,
                            res |-> "updated_save_failed"]
              /\ UNCHANGED persistent
  /\ UNCHANGED <<active_bots, procs, dirs, environ, conv, hostpc, cur, reply,
                 listing, varsShown, keysShown, opSeq>>

\* the loop is over, the file is closed and the handler returns END
SaveClose ==
  /\ save.pc = "writing"
  /\ save.i > Len(environ)
  /\ save' = NoSave
  /\ conv' = [conv EXCEPT ![save.c] = "none"]
  /\ lastOp' = [op |-> "edit", id |-> save.c, text |-> save.text,
                res |-> "updated"]
  /\ UNCHANGED <<active_bots, procs, dirs, environ, persistent, hostpc, cur,
                 reply, listing, varsShown, keysShown, opSeq>>

----------------------------------------------------------------------------
Next ==
  \/ HostNoArgs
  \/ \E u \in RepoUrls, b \in BotIds, sent \in BOOLEAN : HostStart(u, b, sent)
  \/ \E fetched \in BOOLEAN : HostClone(fetched)
  \/ \E sent \in BOOLEAN, installed \in BOOLEAN : HostInstall(sent, installed)
  \/ HostFindMain
  \/ \E started \in BOOLEAN : HostSpawn(started)
  \/ HostRegister
  \/ \E sent \in BOOLEAN : HostReplyDeployed(sent)
  \/ StopNoArgs
  \/ \E b \in BotIds : Stop(b)
  \/ List
  \/ \E h \in DOMAIN procs : ProcExit(h)
  \/ ShowVars
  \/ \E n \in UploadNames, t \in Uploads, d \in BOOLEAN : HandleEnvFile(n, t, d)
  \/ \E c \in Callers : EditVarStart(c)
  \/ \E c \in Callers, t \in EditTexts, sent \in BOOLEAN, w \in BOOLEAN :
       EditVarComplete(c, t, sent, w)
  \/ \E c \in Callers : Cancel(c)
  \/ \E c \in Callers : AddVarStart(c)
  \/ \E c \in Callers, t \in AddTexts : AddVarComplete(c, t)
  \/ \E c \in Callers : DelVarStart(c)
  \/ \E c \in Callers, t \in DelTexts : DelVarComplete(c, t)

Spec == Init /\ [][Next]_vars

\* the service with _save_persistent_vars taken one line at a time
NextPersist ==
  \/ HostNoArgs
  \/ \E u \in RepoUrls, b \in BotIds, sent \in BOOLEAN : HostStart(u, b, sent)
  \/ \E fetched \in BOOLEAN : HostClone(fetched)
  \/ \E sent \in BOOLEAN, installed \in BOOLEAN : HostInstall(sent, installed)
  \/ HostFindMain
  \/ \E started \in BOOLEAN : HostSpawn(started)
  \/ HostRegister
  \/ \E sent \in BOOLEAN : HostReplyDeployed(sent)
  \/ StopNoArgs
  \/ \E b \in BotIds : Stop(b)
  \/ List
  \/ \E h \in DOMAIN procs : ProcExit(h)
  \/ ShowVars
  \/ \E n \in UploadNames, t \in Uploads, d \in BOOLEAN : HandleEnvFile(n, t, d)
  \/ \E c \in Callers : EditVarStart(c)
  \/ \E c \in Callers, t \in EditTexts, sent \in BOOLEAN : EditVarNoSave(c, t, sent)
  \/ \E c \in Callers, t \in EditTexts, opened \in BOOLEAN : EditVarBegin(c, t, opened)
  \/ \E written \in BOOLEAN : SaveStep(written)
  \/ SaveClose
  \/ \E c \in Callers : Cancel(c)
  \/ \E c \in Callers : AddVarStart(c)
  \/ \E c \in Callers, t \in AddTexts : AddVarComplete(c, t)
  \/ \E c \in Callers : DelVarStart(c)
  \/ \E c \in Callers, t \in DelTexts : DelVarComplete(c, t)

SpecPersist == Init /\ [][NextPersist]_vars

----------------------------------------------------------------------------
\* Properties.

\* a dispatched update was handled to its end by handler op in this step
Handled(op) == opSeq' # opSeq /\ hostpc' = "idle" /\ lastOp'.op = op

DeployStepFailures == {"fail_clone", "fail_install", "fail_entry", "fail_spawn"}

\* C1: when the clone, the dependency install, the entry-point selection or
\* the spawn of a deploy fails, the deploy ends there and the registry holds
\* exactly the ids and records it held when the deploy began.
C1_FailedDeployRegistersNothing ==
  [][(hostpc # "idle" /\ hostpc' = "idle" /\ lastOp'.res \in DeployStepFailures)
       => (active_bots' = cur.before /\ active_bots' = active_bots)]_vars

\* a deploy failed while another instance was tracked
C1_Witness ==
  /\ hostpc = "idle"
  /\ lastOp.op = "host"
  /\ lastOp.res \in DeployStepFailures
  /\ DOMAIN active_bots # {}

\* C2: a deploy that reaches registration has an id and a working directory
\* that no tracked instance has, and registering it leaves every tracked
\* record as it was; tracked instances never share a directory or a process.
C2_DeployedIdAndDirAreFresh ==
  [][(hostpc = "register" /\ hostpc' = "reply")
       => /\ cur.id \notin DOMAIN active_bots
          /\ \A b \in DOMAIN active_bots :
               /\ active_bots[b].dir # cur.dir
               /\ active_bots[b].process # cur.process
               /\ active_bots'[b] = active_bots[b]
          /\ DOMAIN active_bots' = DOMAIN active_bots \cup {cur.id}
          /\ active_bots'[cur.id].dir = cur.dir]_vars

\* two deploys of the same source reference are both tracked
C2_Witness ==
  /\ lastOp.op = "host"
  /\ lastOp.res = "deployed"
  /\ \E a \in DOMAIN active_bots, b \in DOMAIN active_bots :
       /\ a # b
       /\ active_bots[a].repo = active_bots[b].repo
       /\ active_bots[a].dir # active_bots[b].dir

\* C3: after a stop(id) that found the instance, id is not in the registry,
\* and a list made right after that stop has no row for id.
C3_StoppedIdIsNotListed ==
  [][/\ (Handled("stop") /\ lastOp'.res = "stopped")
          => (lastOp'.id \in DOMAIN active_bots
              /\ lastOp'.id \notin DOMAIN active_bots')
     /\ (lastOp.op = "stop" /\ lastOp.res = "stopped" /\ Handled("list"))
          => (\A row \in listing' : row[1] # lastOp.id)]_vars

\* an instance was stopped while another one stays tracked
C3_Witness ==
  /\ lastOp.op = "stop"
  /\ lastOp.res = "stopped"
  /\ DOMAIN active_bots # {}

\* C4: stop(id) for an id that is not in the registry replies "Bot not
\* found", signals no process and leaves the registry as it was.
C4_StopUnknownIdChangesNothing ==
  [][(Handled("stop") /\ lastOp'.res # "no_args"
        /\ lastOp'.id \notin DOMAIN active_bots)
       => /\ reply' = "not_found"
          /\ lastOp'.res = "not_found"
          /\ active_bots' = active_bots
          /\ procs' = procs]_vars

\* an unknown id was stopped while an instance was running
C4_Witness ==
  /\ lastOp.op = "stop"
  /\ lastOp.res = "not_found"
  /\ \E b \in DOMAIN active_bots : procs[active_bots[b].process].alive

\* C5: the environment of a child is the store as it was when the child was
\* spawned, and no later step changes the environment of an existing child.
C5_ChildEnvIsSnapshot ==
  [][/\ \A h \in DOMAIN procs :
          h \in DOMAIN procs' /\ procs'[h].env = procs[h].env
     /\ \A h \in DOMAIN procs' \ DOMAIN procs : procs'[h].env = environ]_vars

\* the store was changed after a child, still running, was spawned
C5_Witness ==
  \E h \in DOMAIN procs :
    /\ procs[h].alive
    /\ procs[h].env # environ
    /\ lastOp.op \in {"edit", "env_file", "del"}

\* C6: only a stop(id) takes id out of the registry, so an instance whose
\* child exited stays tracked; list changes no record and shows one row per
\* tracked id, "Running" exactly when the child is alive at that moment.
C6_ExitedInstanceStaysListed ==
  [][/\ \A b \in DOMAIN active_bots :
          b \in DOMAIN active_bots'
            \/ (Handled("stop") /\ lastOp'.res = "stopped" /\ lastOp'.id = b)
     /\ Handled("list")
          => /\ active_bots' = active_bots
             /\ {row[1] : row \in listing'} = DOMAIN active_bots
             /\ \A row \in listing' :
                  /\ row[2] = active_bots[row[1]].repo
                  /\ (row[3] = "Running")
                       <=> procs[active_bots[row[1]].process].alive
                  /\ row[3] \in {"Running", "Stopped"}]_vars

\* a child that exited by itself, without a signal, is listed as Stopped
C6_Witness ==
  /\ lastOp.op = "list"
  /\ \E row \in listing :
       /\ row[3] = "Stopped"
       /\ row[1] \in DOMAIN active_bots
       /\ ~procs[active_bots[row[1]].process].signalled

\* bulk import as the specification describes it: a malformed line is skipped
\* and the lines after it are applied
RECURSIVE BulkMergeSkipping(_, _)
BulkMergeSkipping(env, lines) ==
  IF lines = <<>> THEN env
  ELSE LET line == Strip(Head(lines))
           parts == Split1(line)
       IN IF line # <<>> /\ ~StartsWith(line, <<"#">>)
               /\ Len(parts) = 2 /\ ValidName(parts[1])
            THEN BulkMergeSkipping(SetItem(env, parts[1], parts[2]), Tail(lines))
            ELSE BulkMergeSkipping(env, Tail(lines))

ImportRan == Handled("env_file") /\ lastOp'.res \in {"updated", "fail_line"}

\* C7: a bulk import applies every well-formed, non-blank, non-comment line,
\* those after a malformed line too; the import of A=1, B=2, #comment, a blank
\* line, BADLINE, A=3 ends with A=3 and B=2.
C7_MalformedLineIsSkipped ==
  [][ImportRan
       => /\ environ' = BulkMergeSkipping(environ, FileLines(lastOp'.text))
          /\ lastOp'.text = SpecExampleText
               => /\ HasKey(environ', kA) /\ Get(environ', kA) = <<"3">>
                  /\ HasKey(environ', kB) /\ Get(environ', kB) = <<"2">>]_vars

\* C8: importing persistent.env, written from the store and holding no newline
\* inside a key or a value, gives every persisted key the value it had.
C8_PersistImportRoundTrip ==
  [][(ImportRan /\ persistent = Saved(environ)
        /\ lastOp'.text = persistent.text)
       => \A i \in 1..Len(NonReserved(environ)) :
            LET e == NonReserved(environ)[i] IN
              (IndexFrom(e[1], NL, 1) = 0 /\ IndexFrom(e[2], NL, 1) = 0)
                => (HasKey(environ', e[1]) /\ Get(environ', e[1]) = e[2])]_vars

\* C9: no key with the RENDER_ prefix is in the /show_vars listing, in the key
\* listing of the /edit_var prompt, or in persistent.env.
C9_ReservedKeysNeverLeave ==
  /\ \A i \in 1..Len(varsShown) : ~IsReserved(varsShown[i][1])
  /\ \A i \in 1..Len(keysShown) : ~IsReserved(keysShown[i])
  /\ \A i \in 1..Len(FileLines(persistent.text)) :
       ~IsReserved(FileLines(persistent.text)[i])

\* the entries of a listing that have key k
EntriesFor(shown, k) == {i \in 1..Len(shown) : shown[i][1] = k}

\* a listing has exactly one entry for k, and it carries v
ExactlyOne(shown, k, v) ==
  /\ Cardinality(EntriesFor(shown, k)) = 1
  /\ \A i \in EntriesFor(shown, k) : shown[i][2] = v

\* the message k=v names a non-empty, non-reserved key
SetsPlainKey(text) ==
  /\ Len(Split1(text)) = 2
  /\ Split1(text)[1] # <<>>
  /\ ~IsReserved(Split1(text)[1])

\* C10 as stated: after set(k, v) with a non-empty, non-reserved k the listing
\* has exactly one entry with key k, with value v, whether k was there or not.
C10_SetCreatesOrOverwrites ==
  [][(Handled("edit") /\ SetsPlainKey(lastOp'.text))
       => ExactlyOne(ShownVars(environ'), Split1(lastOp'.text)[1],
                     Split1(lastOp'.text)[2])]_vars

\* C10 amended: set(k, v) overwrites a key that is in the store, after which
\* the listing (also the next /show_vars) has exactly one entry with key k,
\* with value v, and the other entries are as before; for a key that is not
\* in the store it replies "not found" and the store is unchanged.
C10_SetOverwritesPresentKey ==
  [][/\ (Handled("edit") /\ SetsPlainKey(lastOp'.text))
          => LET k == Split1(lastOp'.text)[1]
                 v == Split1(lastOp'.text)[2]
             IN IF HasKey(environ, k)
                  THEN /\ ExactlyOne(ShownVars(environ'), k, v)
                       /\ Len(environ') = Len(environ)
                       /\ \A i \in 1..Len(environ) :
                            environ[i][1] # k => environ'[i] = environ[i]
                  ELSE /\ environ' = environ
                       /\ reply' = "not_found"
     /\ (lastOp.op = "edit" /\ lastOp.res = "updated" /\ Handled("show_vars")
           /\ SetsPlainKey(lastOp.text))
          => ExactlyOne(varsShown', Split1(lastOp.text)[1],
                        Split1(lastOp.text)[2])]_vars

\* an edit changed the value of a key that was in the store
C10_Witness ==
  /\ lastOp.op = "edit"
  /\ lastOp.res = "updated"
  /\ SetsPlainKey(lastOp.text)
  /\ ExactlyOne(ShownVars(environ), Split1(lastOp.text)[1],
                Split1(lastOp.text)[2])
  /\ environ \notin InitEnvirons

----------------------------------------------------------------------------
\* what the import makes of one line of an upload: the line is ignored
\* (blank, comment), or it is an assignment of value to key, which can be
\* applied when the line has a "=" and the key is a valid name
ParsedLine(l) ==
  LET line  == Strip(l)
      parts == Split1(line)
  IN [ignored |-> line = <<>> \/ StartsWith(line, <<"#">>),
      applies |-> Len(parts) = 2 /\ ValidName(parts[1]),
      key     |-> parts[1],
      value   |-> IF Len(parts) = 2 THEN parts[2] ELSE <<>>]

ParsedLines(text) ==
  LET lines == FileLines(text) IN [i \in 1..Len(lines) |-> ParsedLine(lines[i])]

\* the positions of the lines that assign to key k
AssignedAt(parsed, k) ==
  {i \in DOMAIN parsed : ~parsed[i].ignored /\ parsed[i].key = k}

NamedKeys(parsed) == {parsed[i].key : i \in {j \in DOMAIN parsed : ~parsed[j].ignored}}

Last(S) == CHOOSE i \in S : \A j \in S : j <= i

\* C11: after a bulk import whose lines are all well-formed, a key the batch
\* names has the value of its last line in the batch, a key it does not name
\* has the value it had, and the store holds no other key.
C11_LastOccurrenceWins ==
  [][ImportRan
       => LET parsed == ParsedLines(lastOp'.text) IN
          (\A i \in DOMAIN parsed : parsed[i].ignored \/ parsed[i].applies)
            => /\ lastOp'.res = "updated"
               /\ EnvKeys(environ') = EnvKeys(environ) \cup NamedKeys(parsed)
               /\ Len(environ') = Cardinality(EnvKeys(environ'))
               /\ \A k \in EnvKeys(environ') :
                    Get(environ', k) =
                      IF AssignedAt(parsed, k) = {}
                        THEN Get(environ, k)
                        ELSE parsed[Last(AssignedAt(parsed, k))].value]_vars

\* a batch that names a key twice, with two values, was imported
C11_Witness ==
  /\ lastOp.op = "env_file"
  /\ lastOp.res = "updated"
  /\ LET parsed == ParsedLines(lastOp.text) IN
       \E k \in NamedKeys(parsed) :
         /\ Cardinality({parsed[i].value : i \in AssignedAt(parsed, k)}) > 1
         /\ Get(environ, k) = parsed[Last(AssignedAt(parsed, k))].value

----------------------------------------------------------------------------
\* C12: while a deploy is still cloning or installing, a list, a stop and a
\* config operation can be handled: each of them is enabled in every state in
\* which the deploy has not got past its install step.
C12_OtherUpdatesHandledDuringDeploy ==
  (hostpc \in {"clone", "install"} /\ opSeq < MaxOps)
    => /\ ENABLED List
       /\ ENABLED (\E b \in BotIds : Stop(b))
       /\ ENABLED ShowVars

----------------------------------------------------------------------------
\* the entry-point selection of a deploy ran in this step
SelectionRan == hostpc = "find" /\ hostpc' # "find"

\* name f comes before name g in the order of sorted(): at the first position
\* where they differ f has the smaller character, or f is a proper prefix of g
Before(f, g) ==
  \/ \E i \in 1..Len(f) :
       /\ i <= Len(g)
       /\ \A j \in 1..(i - 1) : f[j] = g[j]
       /\ Ord(f[i]) < Ord(g[i])
  \/ (Len(f) < Len(g) /\ \A j \in 1..Len(f) : f[j] = g[j])

\* C14: the entry-point selection picks, among the names in the working
\* directory that end in .py, the one no other such name comes before (main.py
\* when the directory holds main.py and setup.py), and it fails with the
\* no-entry-point error exactly when the directory holds no such name.
C14_SmallestSourceFileIsEntry ==
  [][SelectionRan
       => LET files == dirs[cur.dir]
              py == {f \in files : Len(f) >= 3 /\ SubSeq(f, Len(f) - 2, Len(f)) = DotPy}
          IN /\ (py = {}) <=> (hostpc' = "idle" /\ lastOp'.res = "fail_entry")
             /\ (py # {}) => /\ hostpc' = "spawn"
                             /\ cur'.main \in py
                             /\ \A g \in py : ~Before(g, cur'.main)
             /\ ({fMain, fSetup} \subseteq files /\ fBot \notin files)
                  => cur'.main = fMain]_vars

\* a child runs main.py of a working directory that also holds setup.py
C14_Witness ==
  \E h \in DOMAIN procs :
    /\ procs[h].main = fMain
    /\ fSetup \in dirs[procs[h].cwd]

----------------------------------------------------------------------------
\* the order in which _cmd_host goes through its steps
DeployOrder ==
  { <<"idle", "clone">>, <<"clone", "install">>, <<"install", "find">>,
    <<"find", "spawn">>, <<"spawn", "register">>, <<"register", "reply">>,
    <<"clone", "idle">>, <<"install", "idle">>, <<"find", "idle">>,
    <<"spawn", "idle">>, <<"reply", "idle">> }

\* C15: a deploy goes through clone, dependency install, entry-point selection,
\* spawn and register in this order; a child is spawned only by the spawn
\* step, in a working directory that the clone created and, when the directory
\* holds a dependency manifest, after the installer ended with success; without
\* a manifest the install step passes on without a message or an error; a
\* failed install, like every other step, removes no working directory.
C15_DeployStepsInOrder ==
  [][/\ (hostpc' # hostpc) => (<<hostpc, hostpc'>> \in DeployOrder)
     /\ (hostpc = "clone" /\ hostpc' = "install")
          => (cur.dir \notin DOMAIN dirs /\ cur.dir \in DOMAIN dirs')
     /\ (Len(procs') > Len(procs))
          => /\ hostpc = "spawn"
             /\ cur.dir \in DOMAIN dirs
             /\ cur.main \in dirs[cur.dir]
             /\ (fReq \in dirs[cur.dir]) => (cur.pip = "ok")
     /\ (hostpc = "install" /\ hostpc' # hostpc /\ fReq \notin dirs[cur.dir])
          => (hostpc' = "find" /\ reply' = reply /\ lastOp' = lastOp)
     /\ (hostpc = "install" /\ hostpc' = "idle")
          => (cur.dir \in DOMAIN dirs' /\ dirs' = dirs)
     /\ \A d \in DOMAIN dirs : d \in DOMAIN dirs' /\ dirs'[d] = dirs[d]]_vars

\* a deploy ended at its failed install with its working directory on disk,
\* after another deploy got past its install with a manifest
C15_Witness ==
  /\ lastOp.op = "host"
  /\ lastOp.res = "fail_install"
  /\ RepoDir(lastOp.id) \in DOMAIN dirs
  /\ \E b \in DOMAIN active_bots : fReq \in dirs[active_bots[b].dir]

----------------------------------------------------------------------------
\* the steps of a deploy before its record is filed
PendingSteps == {"clone", "install", "find", "spawn", "register"}

\* C16: in every state, a deploy in flight included, each record of the
\* registry has the handle of a spawned process, the url it was deployed from
\* and the working directory named after its own id, which exists and is where
\* its process runs; while a deploy has not filed its record the registry, and
\* with it what list and stop see, is what it was when the deploy began.
C16_RecordsAreComplete ==
  /\ \A b \in DOMAIN active_bots :
       /\ active_bots[b].process \in DOMAIN procs
       /\ active_bots[b].repo \in RepoUrls
       /\ active_bots[b].dir = RepoDir(b)
       /\ active_bots[b].dir \in DOMAIN dirs
       /\ procs[active_bots[b].process].cwd = active_bots[b].dir
  /\ (hostpc \in PendingSteps) => (active_bots = cur.before)

\* a deploy has spawned its child and not yet filed its record, beside the
\* record of an earlier deploy
C16_Witness ==
  /\ hostpc = "register"
  /\ DOMAIN active_bots # {}
  /\ cur.id \notin DOMAIN active_bots

----------------------------------------------------------------------------
\* the key an edit message names: the text before its first "="
HasEquals(text) == \E i \in 1..Len(text) : text[i] = "="
FirstEquals(text) ==
  CHOOSE i \in 1..Len(text) : text[i] = "=" /\ \A j \in 1..(i - 1) : text[j] # "="
NamedKey(text) == SubSeq(text, 1, FirstEquals(text) - 1)
NamedValue(text) == SubSeq(text, FirstEquals(text) + 1, Len(text))

\* C17: completing an edit for a key that is not in the store answers that the
\* variable was not found and leaves the store and the persisted file exactly
\* as they were; an edit message without "=" leaves them as they were too and
\* is answered with the format hint.
C17_EditOfAbsentKeyChangesNothing ==
  [][Handled("edit")
       => LET text == lastOp'.text IN
          /\ (~HasEquals(text))
               => /\ environ' = environ
                  /\ persistent' = persistent
                  /\ reply' = "invalid_format"
          /\ (HasEquals(text) /\ NamedKey(text) \notin EnvKeys(environ))
               => /\ environ' = environ
                  /\ persistent' = persistent
                  /\ reply' = "not_found"]_vars

\* an edit for a key that is not in the store was answered
C17_Witness ==
  /\ lastOp.op = "edit"
  /\ lastOp.res = "not_found"
  /\ HasEquals(lastOp.text)
  /\ NamedKey(lastOp.text) \notin EnvKeys(environ)

\* C18: right after an edit of an existing key that ran to its end, the
\* persisted file holds, line by line, the entries of the store whose key is
\* not reserved, the edited key with its new value among them; a bulk import
\* leaves the persisted file as it was, whatever it does to the store.
C18_FileFollowsEditsNotImports ==
  [][/\ (Handled("edit") /\ lastOp'.res = "updated")
          => LET plain == NonReserved(environ')
                 lines == FileLines(persistent'.text)
                 key   == NamedKey(lastOp'.text)
             IN /\ persistent'.exists
                /\ Len(lines) = Len(plain)
                /\ \A i \in 1..Len(plain) :
                     lines[i] = plain[i][1] \o <<"=">> \o plain[i][2] \o <<NL>>
                /\ Get(environ', key) = NamedValue(lastOp'.text)
                /\ (~IsReserved(key))
                     => \E i \in 1..Len(lines) :
                          lines[i] = key \o <<"=">> \o NamedValue(lastOp'.text) \o <<NL>>
     /\ Handled("env_file") => persistent' = persistent]_vars

\* a bulk import has changed the store after an edit had saved it: the
\* persisted file differs from the entries of the store
C18_Witness ==
  /\ lastOp.op = "env_file"
  /\ lastOp.res = "updated"
  /\ persistent.exists
  /\ FileLines(persistent.text) #
       [i \in 1..Len(NonReserved(environ)) |->
          NonReserved(environ)[i][1] \o <<"=">> \o NonReserved(environ)[i][2] \o <<NL>>]

\* C19: the text message a caller sends in the awaiting-edit state ends the
\* conversation whether the key was updated, was not found, the message was
\* malformed or the persist failed after the in-memory update; a cancel ends
\* the conversation and leaves the store as it was.
C19_EditConversationEnds ==
  [][/\ (Handled("edit") /\ lastOp'.res \in {"updated", "not_found", "invalid_format",
                                             "updated_save_failed"})
          => (conv[lastOp'.id] = "EDIT_VAR" /\ conv'[lastOp'.id] = "none")
     /\ Handled("cancel")
          => (conv'[lastOp'.id] = "none" /\ environ' = environ)]_vars

----------------------------------------------------------------------------
\* a record of the registry holds the handle h
Referenced(bots, h) == \E b \in DOMAIN bots : bots[b].process = h

\* terminate() was called on child p: it got the signal, or it had exited and
\* the call found that out
TerminateCalled(p) == p.signalled \/ (~p.alive /\ p.reaped)

\* no child is without a record unless terminate() was called on it, or it is
\* the child the running deploy is about to register
NoOrphan(bots, ps, pc, c) ==
  \A h \in DOMAIN ps :
    \/ Referenced(bots, h)
    \/ TerminateCalled(ps[h])
    \/ (pc = "register" /\ c.process = h)

\* C20: after every step, each child a deploy has spawned and on which no
\* stop has called terminate() is held by a record of the registry (or is
\* the child of the deploy that is about to register it), whether or not the
\* deploy could report its success; and a stop that removes a record has
\* called terminate() on the process of that record.
C20_NoChildIsOrphaned ==
  [][/\ NoOrphan(active_bots', procs', hostpc', cur')
     /\ (hostpc = "reply" /\ hostpc' = "idle")
          => (cur.id \in DOMAIN active_bots' /\ active_bots'[cur.id].process = cur.process)
     /\ \A b \in DOMAIN active_bots :
          (b \notin DOMAIN active_bots')
            => /\ Handled("stop")
               /\ TerminateCalled(procs'[active_bots[b].process])]_vars

\* a deploy could not report its success: its child runs, unsignalled, and its
\* record is in the registry
C20_Witness ==
  /\ lastOp.op = "host"
  /\ lastOp.res = "fail_reply_deployed"
  /\ lastOp.id \in DOMAIN active_bots
  /\ procs[active_bots[lastOp.id].process].alive
  /\ ~procs[active_bots[lastOp.id].process].signalled

----------------------------------------------------------------------------
\* the lines for the entries of env whose key is not reserved
PlainLines(env) ==
  [i \in 1..Len(NonReserved(env)) |->
     NonReserved(env)[i][1] \o <<"=">> \o NonReserved(env)[i][2] \o <<NL>>]

\* C13: from the start to the end of a persist no step changes the store: the
\* store stays the one the persist began with, the file holds at every moment
\* the first lines of that store's non-reserved entries, and when the persist
\* ends it holds exactly the non-reserved entries of that one store.
C13_PersistExcludesMutation ==
  [][/\ (save.pc = "writing")
          => /\ environ' = environ
             /\ environ = save.start
             /\ persistent.exists
             /\ \E n \in 0..Len(PlainLines(save.start)) :
                  FileLines(persistent.text) = SubSeq(PlainLines(save.start), 1, n)
     /\ (save.pc = "writing" /\ save'.pc = "idle" /\ lastOp'.res = "updated")
          => FileLines(persistent'.text) = PlainLines(environ')]_vars

\* a persist is under way: the first line is written, others are to come
C13_Witness ==
  /\ save.pc = "writing"
  /\ persistent.text # <<>>
  /\ save.i <= Len(environ)
  /\ opSeq < MaxOps

====
